---- MODULE Spec2Model ----
(***************************************************************************)
(* Model of the plugin registry of src/index.ts: the CasePlugin records,   *)
(* the PluginController class (use, installPlugins, run, unuse,            *)
(* clearPlugins) over a JavaScript Map, and the Demo function.             *)
(*                                                                         *)
(* A JavaScript Map compares keys with SameValueZero: strings by value,    *)
(* arrays by object identity.  A key is therefore either a string tag or   *)
(* a reference to an array object; the contents of an array play no part   *)
(* in the lookup.                                                          *)
(***************************************************************************)
EXTENDS Integers, Sequences, FiniteSets, TLC

\* ---------------------------------------------------------------- bounds
\* params handed to run are drawn from 0..MaxParam (0 is undefined).
MaxParam == 2
\* installPlugins is called with sequences of at most MaxInstall plugins.
MaxInstall == 2

\* ------------------------------------------------------- values and heap
\* CaseType, plus "C", which the source casts to CaseType.
Tags == {"A", "B", "C", "N", ""}

\* The array objects of the program.
\*   BOrCRef : the array literal stored in casePluginBOrC.targetTypes
\*   DemoRef : the array literal built by Demo for handleClick
\*   UserRef : an array owned by a caller-defined plugin
BOrCRef == "casePluginBOrC.targetTypes"
DemoRef == "Demo.handleClick.arg"
UserRef == "userArrPlugin.targetTypes"
Refs == {BOrCRef, DemoRef, UserRef}

\* Contents of each array object.
ArrContent(ref) ==
    CASE ref = BOrCRef -> <<"B", "C">>
      [] ref = DemoRef -> <<"B", "C">>
      [] ref = UserRef -> <<"A", "N">>

\* A value of type CaseType | CaseType[]: a string, or an array reference.
Str(t) == [kind |-> "str", tag |-> t, ref |-> "-"]
Arr(r) == [kind |-> "arr", tag |-> "-", ref |-> r]
Keys == {Str(t) : t \in Tags} \cup {Arr(r) : r \in Refs}

\* === on CaseType | CaseType[]: value equality of strings, identity of arrays.
StrictEq(a, b) == a = b

\* Elements of a value looked at as a collection of tags.
Elems(k) == IF k.kind = "arr"
            THEN {ArrContent(k.ref)[i] : i \in 1..Len(ArrContent(k.ref))}
            ELSE {k.tag}

Undefined == 0
Params == 0..MaxParam

\* ---------------------------------------------------------------- plugins
\* The three plugins of the source.  condition names the closure the plugin
\* carries; a closure reads the targetTypes of the plugin it was written for.
casePluginA ==
    [id |-> "casePluginA", targetTypes |-> Str("A"), condition |-> "condA"]
casePluginBOrC ==
    [id |-> "casePluginBOrC", targetTypes |-> Arr(BOrCRef), condition |-> "condBOrC"]
casePluginN ==
    [id |-> "casePluginN", targetTypes |-> Str("N"), condition |-> "condN"]

\* Further values of the interface CasePlugin that a caller can hand to use.
\*   altPluginA     : a second plugin for "A", reusing casePluginA.condition
\*   declinePluginB : registered under "B", gated by casePluginN.condition
\*   scalarPluginB  : registered under "B", gated by casePluginBOrC.condition
\*   emptyPlugin    : registered under the empty tag
\*   userArrPlugin  : registered under its own array, gated by
\*                    casePluginBOrC.condition
altPluginA ==
    [id |-> "altPluginA", targetTypes |-> Str("A"), condition |-> "condA"]
declinePluginB ==
    [id |-> "declinePluginB", targetTypes |-> Str("B"), condition |-> "condN"]
scalarPluginB ==
    [id |-> "scalarPluginB", targetTypes |-> Str("B"), condition |-> "condBOrC"]
emptyPlugin ==
    [id |-> "emptyPlugin", targetTypes |-> Str(""), condition |-> "condEmpty"]
userArrPlugin ==
    [id |-> "userArrPlugin", targetTypes |-> Arr(UserRef), condition |-> "condBOrC"]

CasePlugin == {casePluginA, casePluginBOrC, casePluginN, altPluginA,
               declinePluginB, scalarPluginB, emptyPlugin, userArrPlugin}

\* types.filter(...) exists on arrays only: on a string the call throws a
\* TypeError.  Only casePluginBOrC.condition calls it.
ConditionThrows(plugin, types) ==
    plugin.condition = "condBOrC" /\ types.kind = "str"

\* plugin.condition(types), where it returns.
Condition(plugin, types) ==
    CASE plugin.condition = "condA" -> StrictEq(casePluginA.targetTypes, types)
      [] plugin.condition = "condN" -> StrictEq(casePluginN.targetTypes, types)
      [] plugin.condition = "condEmpty" -> StrictEq(emptyPlugin.targetTypes, types)
      [] plugin.condition = "condBOrC" ->
            LET kept == SelectSeq(ArrContent(types.ref),
                                  LAMBDA v : v \in Elems(casePluginBOrC.targetTypes))
            IN  Len(kept) # 0

\* ------------------------------------------------------------ the Map
\* A Map is a set of entries; set, get, delete and clear as the Map does them.
EmptyMap == {}

MapHas(m, k) == \E e \in m : StrictEq(e.key, k)

MapGet(m, k) == (CHOOSE e \in m : StrictEq(e.key, k)).value

MapSet(m, k, v) ==
    {e \in m : ~StrictEq(e.key, k)} \cup {[key |-> k, value |-> v]}

MapDelete(m, k) == {e \in m : ~StrictEq(e.key, k)}

MapClear(m) == {}

MapKeys(m) == {e.key : e \in m}

\* ------------------------------------------------- PluginController
\* Variant of Use: a key that is already mapped keeps its first plugin.
UseKeepFirst(m, plugin) ==
    IF MapHas(m, plugin.targetTypes) THEN m
    ELSE MapSet(m, plugin.targetTypes, plugin)

\* use(plugin)
Use(m, plugin) == MapSet(m, plugin.targetTypes, plugin)

\* Variant of InstallPlugins: the plugins are registered last to first.
RECURSIVE InstallPluginsDownFrom(_, _, _)
InstallPluginsDownFrom(m, plugins, i) ==
    IF i < 1 THEN m
    ELSE InstallPluginsDownFrom(MapSet(m, plugins[i].targetTypes, plugins[i]),
                                plugins, i - 1)

InstallPluginsReversed(m, plugins) ==
    InstallPluginsDownFrom(m, plugins, Len(plugins))

\* installPlugins(plugins): forEach, first to last.
RECURSIVE InstallPluginsFrom(_, _, _)
InstallPluginsFrom(m, plugins, i) ==
    IF i > Len(plugins) THEN m
    ELSE InstallPluginsFrom(Use(m, plugins[i]), plugins, i + 1)

InstallPlugins(m, plugins) == InstallPluginsFrom(m, plugins, 1)

\* Variant of RunInvoked: the action is called without its params.
RunInvokedNoParams(m, types, params) ==
    IF MapHas(m, types)
       /\ ~ConditionThrows(MapGet(m, types), types)
       /\ Condition(MapGet(m, types), types)
    THEN <<[plugin |-> MapGet(m, types).id, params |-> Undefined]>>
    ELSE <<>>

\* Variant of RunInvoked: the action is called without asking the condition.
RunInvokedUnconditional(m, types, params) ==
    IF MapHas(m, types)
    THEN <<[plugin |-> MapGet(m, types).id, params |-> params]>>
    ELSE <<>>

\* The actions run(types, params) invokes, in order.
RunInvoked(m, types, params) ==
    IF MapHas(m, types)
       /\ ~ConditionThrows(MapGet(m, types), types)
       /\ Condition(MapGet(m, types), types)
    THEN <<[plugin |-> MapGet(m, types).id, params |-> params]>>
    ELSE <<>>

\* Variant of RunResult: a key that is not mapped is passed over in silence.
RunResultSilent(m, types) ==
    IF MapHas(m, types) /\ ConditionThrows(MapGet(m, types), types)
    THEN "TypeError"
    ELSE "ok"

\* How run(types, params) ends: it returns, or throws one of two errors.
RunResult(m, types) ==
    IF MapHas(m, types)
    THEN IF ConditionThrows(MapGet(m, types), types) THEN "TypeError" ELSE "ok"
    ELSE "NotRegistered"

\* Variant of Unuse: every key with the same elements is removed.
UnuseByContent(m, types) ==
    {e \in m : ~(e.key.kind = types.kind /\ Elems(e.key) = Elems(types))}

\* unuse(types)
Unuse(m, types) == MapDelete(m, types)

\* Variant of ClearPlugins: only the array keys are removed.
ClearPluginsArraysOnly(m) == {e \in m : e.key.kind = "str"}

\* clearPlugins()
ClearPlugins(m) == MapClear(m)

\* ------------------------------------------------------------- Demo
\* The arguments of the four handleClick calls of Demo, in order.
DemoClicks == <<Str("A"), Str("B"), Arr(DemoRef), Str("N")>>

\* Demo from its i-th handleClick on: the first throw ends it, and
\* clearPlugins runs only after the last call has returned.
RECURSIVE DemoFrom(_, _, _)
DemoFrom(m, done, i) ==
    IF i > Len(DemoClicks)
    THEN [map |-> ClearPlugins(m), invoked |-> done, result |-> "ok"]
    ELSE LET r   == RunResult(m, DemoClicks[i])
             inv == done \o RunInvoked(m, DemoClicks[i], Undefined)
         IN  IF r # "ok"
             THEN [map |-> m, invoked |-> inv, result |-> r]
             ELSE DemoFrom(m, inv, i + 1)

DemoOutcome(m) ==
    DemoFrom(InstallPlugins(m, <<casePluginA, casePluginBOrC, casePluginN>>),
             <<>>, 1)

\* ------------------------------------------------------------- state
VARIABLES
    pluginMap,   \* PluginController.pluginMap
    prevMap,     \* pluginMap as the last call found it
    opName,      \* the last call
    opKey,       \* its types argument (run, unuse)
    opParams,    \* its params argument (run)
    opPlugins,   \* its plugins (use, installPlugins)
    result,      \* how it ended: "ok" or the error thrown
    invoked      \* the plugin actions it invoked, in order

vars == <<pluginMap, prevMap, opName, opKey, opParams, opPlugins, result, invoked>>

NoKey == [kind |-> "none", tag |-> "-", ref |-> "-"]

\* The arrays installPlugins is called with: the plugins Demo installs and
\* two that share a key with one of them or with each other.
InstallPool == {casePluginA, casePluginBOrC, casePluginN, altPluginA, declinePluginB}
PluginSeqs == UNION {[1..n -> InstallPool] : n \in 0..MaxInstall}

Init ==
    /\ pluginMap = EmptyMap
    /\ prevMap = EmptyMap
    /\ opName = "new"
    /\ opKey = NoKey
    /\ opParams = Undefined
    /\ opPlugins = <<>>
    /\ result = "ok"
    /\ invoked = <<>>

DoUse ==
    \E plugin \in CasePlugin :
        /\ pluginMap' = Use(pluginMap, plugin)
        /\ prevMap' = pluginMap
        /\ opName' = "use"
        /\ opKey' = NoKey
        /\ opParams' = Undefined
        /\ opPlugins' = <<plugin>>
        /\ result' = "ok"
        /\ invoked' = <<>>

DoInstallPlugins ==
    \E plugins \in PluginSeqs :
        /\ pluginMap' = InstallPlugins(pluginMap, plugins)
        /\ prevMap' = pluginMap
        /\ opName' = "installPlugins"
        /\ opKey' = NoKey
        /\ opParams' = Undefined
        /\ opPlugins' = plugins
        /\ result' = "ok"
        /\ invoked' = <<>>

DoRun ==
    \E types \in Keys, params \in Params :
        /\ pluginMap' = pluginMap
        /\ prevMap' = pluginMap
        /\ opName' = "run"
        /\ opKey' = types
        /\ opParams' = params
        /\ opPlugins' = <<>>
        /\ result' = RunResult(pluginMap, types)
        /\ invoked' = RunInvoked(pluginMap, types, params)

DoUnuse ==
    \E types \in Keys :
        /\ pluginMap' = Unuse(pluginMap, types)
        /\ prevMap' = pluginMap
        /\ opName' = "unuse"
        /\ opKey' = types
        /\ opParams' = Undefined
        /\ opPlugins' = <<>>
        /\ result' = "ok"
        /\ invoked' = <<>>

DoClearPlugins ==
    /\ pluginMap' = ClearPlugins(pluginMap)
    /\ prevMap' = pluginMap
    /\ opName' = "clearPlugins"
    /\ opKey' = NoKey
    /\ opParams' = Undefined
    /\ opPlugins' = <<>>
    /\ result' = "ok"
    /\ invoked' = <<>>

DoDemo ==
    /\ pluginMap' = DemoOutcome(pluginMap).map
    /\ prevMap' = pluginMap
    /\ opName' = "Demo"
    /\ opKey' = NoKey
    /\ opParams' = Undefined
    /\ opPlugins' = <<>>
    /\ result' = DemoOutcome(pluginMap).result
    /\ invoked' = DemoOutcome(pluginMap).invoked

Next ==
    \/ DoUse
    \/ DoInstallPlugins
    \/ DoRun
    \/ DoUnuse
    \/ DoClearPlugins
    \/ DoDemo

Spec == Init /\ [][Next]_vars

\* ------------------------------------------------------------ claims

\* C1: when run(K, p) finds a plugin H under K and H.condition(K) holds, it
\* invokes H.action once, with p, and nothing else; no run invokes more
\* than one action.
RunInvokesTheMatchingPluginOnce ==
    /\ (opName = "run" /\ MapHas(prevMap, opKey)
          /\ ~ConditionThrows(MapGet(prevMap, opKey), opKey)
          /\ Condition(MapGet(prevMap, opKey), opKey))
       => /\ result = "ok"
          /\ invoked = <<[plugin |-> MapGet(prevMap, opKey).id,
                          params |-> opParams]>>
    /\ opName = "run" => Len(invoked) <= 1

\* A run with a defined params has found a matching plugin under an array key.
RunMatchedWitness ==
    /\ opName = "run"
    /\ opKey = Arr(BOrCRef)
    /\ opParams # Undefined
    /\ MapHas(prevMap, opKey)
    /\ Len(invoked) = 1

\* C2: run(K, _) on a key K with no plugin mapped under it throws "types not
\* exist in plugin map" and invokes no action.
RunOnUnmappedKeyThrows ==
    (opName = "run" /\ ~MapHas(prevMap, opKey))
       => (result = "NotRegistered" /\ invoked = <<>> /\ pluginMap = prevMap)

\* A run has looked up a key that is not mapped while other keys are.
RunUnmappedWitness ==
    /\ opName = "run"
    /\ prevMap # EmptyMap
    /\ ~MapHas(prevMap, opKey)

\* C9: when run(K, p) finds a plugin under K whose condition(K) is false, it
\* returns without invoking any action and leaves pluginMap as it was.
RunDeclinedIsSilent ==
    (opName = "run" /\ MapHas(prevMap, opKey)
       /\ ~ConditionThrows(MapGet(prevMap, opKey), opKey)
       /\ ~Condition(MapGet(prevMap, opKey), opKey))
    => (invoked = <<>> /\ result = "ok" /\ pluginMap = prevMap)

\* A run has found a plugin whose condition is false.
RunDeclinedWitness ==
    /\ opName = "run"
    /\ MapHas(prevMap, opKey)
    /\ ~ConditionThrows(MapGet(prevMap, opKey), opKey)
    /\ ~Condition(MapGet(prevMap, opKey), opKey)
\* C5: use(H2) on a key K that already maps to H1 throws nothing and leaves
\* one mapping for K, to H2, and the mappings of the other keys as they
\* were; a run(K, p) that follows invokes H2.action or nothing.
UseOverwritesUnderItsKey ==
    [][/\ opName' = "use" =>
            LET H2 == opPlugins'[1]
                K  == H2.targetTypes
            IN  /\ result' = "ok"
                /\ {e \in pluginMap' : e.key = K} = {[key |-> K, value |-> H2]}
                /\ {e \in pluginMap' : e.key # K} = {e \in pluginMap : e.key # K}
       /\ (opName = "use" /\ opName' = "run"
             /\ opKey' = opPlugins[1].targetTypes) =>
            invoked' \in {<<>>, <<[plugin |-> opPlugins[1].id,
                                   params |-> opParams']>>}
      ]_vars

\* use has replaced another plugin that was mapped under the same key.
UseOverwroteWitness ==
    /\ opName = "use"
    /\ MapHas(prevMap, opPlugins[1].targetTypes)
    /\ MapGet(prevMap, opPlugins[1].targetTypes) # opPlugins[1]
    /\ Cardinality(prevMap) > 1

ClearPluginsEmptiesTheMap ==
    [][/\ opName' = "clearPlugins" =>
            (pluginMap' = EmptyMap /\ result' = "ok")
       /\ (opName = "clearPlugins" /\ opName' = "run") =>
            (result' = "NotRegistered" /\ invoked' = <<>>)
      ]_vars

\* clearPlugins has emptied a map that held string and array keys.
ClearedWitness ==
    /\ opName = "clearPlugins"
    /\ MapHas(prevMap, Str("A"))
    /\ MapHas(prevMap, Arr(BOrCRef))
    /\ pluginMap = EmptyMap

\* C8: after installPlugins(plugins), a key that is the targetTypes of some
\* plugin of the sequence maps to the last such plugin, and every other
\* key is mapped as before.
InstallPluginsIsUseInOrder ==
    opName = "installPlugins" =>
        /\ result = "ok"
        /\ \A k \in Keys \cup MapKeys(pluginMap) \cup MapKeys(prevMap) :
              LET at == {i \in 1..Len(opPlugins) : opPlugins[i].targetTypes = k}
                  last == CHOOSE i \in at : \A j \in at : j <= i
              IN  IF at = {}
                  THEN {e \in pluginMap : e.key = k} = {e \in prevMap : e.key = k}
                  ELSE {e \in pluginMap : e.key = k}
                          = {[key |-> k, value |-> opPlugins[last]]}

\* installPlugins was given two different plugins with the same key.
InstallCollisionWitness ==
    /\ opName = "installPlugins"
    /\ \E i, j \in 1..Len(opPlugins) :
          /\ i < j
          /\ opPlugins[i].targetTypes = opPlugins[j].targetTypes
          /\ opPlugins[i] # opPlugins[j]
    /\ prevMap # EmptyMap

\* C3: run("") throws an invalid-input error, whatever pluginMap holds.
RunOnEmptyTagIsInvalidInput ==
    (opName = "run" /\ opKey = Str(""))
       => (result = "InvalidInput" /\ invoked = <<>>)

\* C4: with casePluginBOrC registered, run on any array holding "B" and "C"
\* invokes its action.
RunFindsTagSetByElements ==
    (opName = "run" /\ opKey.kind = "arr" /\ Elems(opKey) = {"B", "C"}
       /\ \E e \in prevMap : e.value = casePluginBOrC)
    => /\ result = "ok"
       /\ invoked = <<[plugin |-> casePluginBOrC.id, params |-> opParams]>>

\* C10: Demo returns without an error and leaves pluginMap empty.
DemoRunsToCompletion ==
    opName = "Demo" => (result = "ok" /\ pluginMap = EmptyMap)

====
